---- MODULE Spec2Model ----
(***************************************************************************)
(* ChattyServer (src/src/app.ts): the bootstrap of an Express application, *)
(* its middleware chain, its not-found and error handlers, and the         *)
(* asynchronous start of the Socket.IO server over two Redis clients.      *)
(*                                                                         *)
(* The model has two parts that share the variable `stack`:                *)
(*   - the startup sequence start() -> startServer() -> createSocketIO()   *)
(*     -> startHttpServer(), with each await a separate step;              *)
(*   - the dispatch of one request at a time through the layers that       *)
(*     start() registered, one layer per step, with Express' rules for     *)
(*     matching layers, for next(), next(err) and for its final handler.   *)
(* Requests share no state in this code (each has its own req and res),    *)
(* so one request in flight at a time shows every behaviour of a request.  *)
(***************************************************************************)
EXTENDS Naturals, Sequences, FiniteSets

VARIABLES
  pc,          \* what start()/startServer() does next
  stack,       \* the Express router's layers, in registration order
  appRoutes,   \* what the ./routes module registers (its code is not in src/)
  NODE_ENV,    \* config.NODE_ENV
  pubClient,   \* state of createClient(...): the publishing connection
  subClient,   \* state of pubClient.duplicate(): the subscribing connection
  adapter,     \* TRUE once io.adapter(createAdapter(pubClient, subClient)) ran
  listening,   \* TRUE once httpServer.listen(SERVER_PORT) was called
  port,        \* the listening socket: "closed", "binding", "open" or "inUse"
  log,         \* what start-up wrote to the logger, in order
  req,         \* the request being handled (or the last one handled)
  chain,       \* "idle", "running" or "stopped": the request's chain
  idx,         \* index in stack of the layer the chain is at
  layerError,  \* the error the chain carries (Express' layerError)
  options,     \* methods collected for Express' automatic OPTIONS answer
  res,         \* the response object: statusCode, headersSent, headers set
  wire,        \* what the client received: NoResponse or the response sent
  destroyed,   \* TRUE when the request's socket was destroyed
  ran,         \* names of the handlers invoked for the request, in order
  raised,      \* the failures raised while handling the request, in order
  handled,     \* the error handler's calls for the request: the error it
               \* logged and res.headersSent as it found it
  lateWrites   \* handlers that tried to write after the headers were sent

vars == << pc, stack, appRoutes, NODE_ENV, pubClient, subClient, adapter,
           listening, port, log, req, chain, idx, layerError, options, res,
           wire, destroyed, ran, raised, handled, lateWrites >>

startupVars == << pc, pubClient, subClient, adapter, listening, port >>
requestVars == << req, chain, idx, layerError, options, res, wire,
                  destroyed, ran, raised, handled, lateWrites >>

(***************************************************************************)
(* Bounds of the model.                                                    *)
(***************************************************************************)
\* routes the ./routes module registers
MaxRoutes == 1
\* routes registered on the app after start() returned
MaxLate == 1

Methods == {"GET", "HEAD", "POST", "PUT", "DELETE", "OPTIONS"}
Paths == {"/a", "/b"}
\* the path new Server(httpServer, ...) serves Socket.IO on (its default)
SocketIOPath == "/socket.io/"
RouteMethods == {"GET"}

(***************************************************************************)
(* Constants of the program.                                               *)
(***************************************************************************)
\* HTTP_STATUS.NOT_FOUND
NOT_FOUND == 404
\* const SERVER_PORT = 5000
SERVER_PORT == 5000
\* cors({ optionsSuccessStatus: 200 })
optionsSuccessStatus == 200
\* cors({ methods: [...] })
corsMethods == {"GET", "POST", "DELETE", "OPTIONS"}

(***************************************************************************)
(* Failures.  CustomError and its subclasses live in                       *)
(* ./shared/globals/helpers/error-handler, which is not in src/; they are  *)
(* modelled from the specification: a declared status code and a           *)
(* structured serialization.                                               *)
(***************************************************************************)
Failure(custom, name, statusCode, message) ==
  [custom |-> custom, name |-> name, statusCode |-> statusCode, message |-> message]

NoError == Failure(FALSE, "none", 0, "")

CustomErrors ==
  { Failure(TRUE, "BadRequestError", 400, "invalid input"),
    Failure(TRUE, "NotFoundError", 404, "no such user") }

\* what a route handler may throw that is no CustomError
UnexpectedErrors ==
  { Failure(FALSE, "TypeError", 0, "undefined is not a function at handler.ts:7") }

\* what a middleware stage throws when it fails on a request
StageError(stage) ==
  IF stage = "json"
  THEN Failure(FALSE, "SyntaxError", 400, "Unexpected token in JSON")
  ELSE IF stage = "urlencoded"
  THEN Failure(FALSE, "PayloadTooLargeError", 413, "request entity too large")
  ELSE Failure(FALSE, "Error", 0, stage)

\* Node's error for a write to a response whose headers are out
HeadersSentError ==
  Failure(FALSE, "ERR_HTTP_HEADERS_SENT", 0, "Cannot set headers after they are sent")

\* error instanceof CustomError
IsCustomError(error) == error.custom

\* error.serializeErrors()
serializeErrors(error) ==
  [type |-> "json", message |-> << error.message >>,
   status |-> "error", statusCode |-> error.statusCode]

(***************************************************************************)
(* Response bodies: message is the sequence of the pieces concatenated.    *)
(***************************************************************************)
Body(type, message) ==
  [type |-> type, message |-> message, status |-> "", statusCode |-> 0]

EmptyBody == Body("none", << >>)

Contains(message, piece) == \E i \in 1..Len(message) : message[i] = piece

NoResponse == [status |-> 0, body |-> EmptyBody, hardened |-> FALSE, by |-> "none"]

FreshRes == [statusCode |-> 200, headersSent |-> FALSE, hardened |-> FALSE, cors |-> FALSE]

NoReq == [method |-> "none", path |-> "none", failAt |-> "none", nstack |-> 0]

(***************************************************************************)
(* The layers of the router.                                               *)
(***************************************************************************)
Layer(name, kind, method, path) ==
  [name |-> name, kind |-> kind, method |-> method, path |-> path]

Middleware(name) == Layer(name, "mw", "ALL", "/")

Route(name, method, path) == Layer(name, "route", method, path)

\* app.use(cookieSession(...)); app.use(hpp()); app.use(helmet()); app.use(cors(...))
securityMiddlewareLayers ==
  << Middleware("cookieSession"), Middleware("hpp"),
     Middleware("helmet"), Middleware("cors") >>

\* app.use(compression()); app.use(json(...)); app.use(urlencoded(...))
standardMiddlewareLayers ==
  << Middleware("compression"), Middleware("json"), Middleware("urlencoded") >>

\* app.all('*', ...) and then app.use((error, _req, res, next) => ...)
globalErrorHandlerLayers ==
  << Route("notFound", "ALL", "*"), Layer("errorHandler", "error", "ALL", "/") >>

GateStages == {"cookieSession", "hpp", "helmet", "cors"}

\* the stages of the chain that can fail on a request
FailingStages == {"cookieSession", "hpp", "json", "urlencoded"}

RouteSpace == { Route("route", m, p) : m \in RouteMethods, p \in Paths }

LateRouteSpace == { Route("lateRoute", m, p) : m \in RouteMethods, p \in Paths }

\* the route lists the ./routes module may register: no route twice
RouteLists ==
  { s \in UNION { [1..n -> RouteSpace] : n \in 0..MaxRoutes } :
      \A i, j \in 1..Len(s) : i /= j => s[i] /= s[j] }

NumLate == Cardinality({ i \in 1..Len(stack) : stack[i].name = "lateRoute" })

(***************************************************************************)
(* Startup.                                                                *)
(***************************************************************************)
Init ==
  /\ pc = "start"
  /\ stack = << >>
  /\ appRoutes \in RouteLists
  /\ NODE_ENV \in {"development", "production"}
  /\ pubClient = "none"
  /\ subClient = "none"
  /\ adapter = FALSE
  /\ listening = FALSE
  /\ port = "closed"
  /\ log = << >>
  /\ req = NoReq
  /\ chain = "idle"
  /\ idx = 0
  /\ layerError = NoError
  /\ options = {}
  /\ res = FreshRes
  /\ wire = NoResponse
  /\ destroyed = FALSE
  /\ ran = << >>
  /\ raised = << >>
  /\ handled = << >>
  /\ lateWrites = << >>

\* this.securityMiddleware(this.app)
securityMiddleware ==
  /\ pc = "start"
  /\ stack' = stack \o securityMiddlewareLayers
  /\ pc' = "standardMiddleware"
  /\ UNCHANGED << appRoutes, NODE_ENV, pubClient, subClient, adapter, listening, port, log >>
  /\ UNCHANGED requestVars

\* this.standardMiddleware(this.app)
standardMiddleware ==
  /\ pc = "standardMiddleware"
  /\ stack' = stack \o standardMiddlewareLayers
  /\ pc' = "routeMiddleware"
  /\ UNCHANGED << appRoutes, NODE_ENV, pubClient, subClient, adapter, listening, port, log >>
  /\ UNCHANGED requestVars

\* this.routeMiddleware(this.app): applicationRoutes(app)
routeMiddleware ==
  /\ pc = "routeMiddleware"
  /\ stack' = stack \o appRoutes
  /\ pc' = "globalErrorHandler"
  /\ UNCHANGED << appRoutes, NODE_ENV, pubClient, subClient, adapter, listening, port, log >>
  /\ UNCHANGED requestVars

\* this.globalErrorHandler(this.app)
globalErrorHandler ==
  /\ pc = "globalErrorHandler"
  /\ stack' = stack \o globalErrorHandlerLayers
  /\ pc' = "startServer"
  /\ UNCHANGED << appRoutes, NODE_ENV, pubClient, subClient, adapter, listening, port, log >>
  /\ UNCHANGED requestVars

\* this.startServer(this.app) up to its await: new http.Server(app), then
\* createSocketIO up to its await: new Server(...), createClient(...),
\* pubClient.duplicate(), and both connect() calls issued
startServer ==
  /\ pc = "startServer"
  /\ pubClient' = "connecting"
  /\ subClient' = "connecting"
  /\ pc' = "awaitConnect"
  /\ UNCHANGED << stack, appRoutes, NODE_ENV, adapter, listening, port, log >>
  /\ UNCHANGED requestVars

\* pubClient.connect() resolves or rejects
pubConnect ==
  /\ pubClient = "connecting"
  /\ \E outcome \in {"ready", "failed"} : pubClient' = outcome
  /\ UNCHANGED << pc, stack, appRoutes, NODE_ENV, subClient, adapter, listening, port, log >>
  /\ UNCHANGED requestVars

\* subClient.connect() resolves or rejects
subConnect ==
  /\ subClient = "connecting"
  /\ \E outcome \in {"ready", "failed"} : subClient' = outcome
  /\ UNCHANGED << pc, stack, appRoutes, NODE_ENV, pubClient, adapter, listening, port, log >>
  /\ UNCHANGED requestVars

\* a faulty variant: Promise.any in place of Promise.all
PromiseAnyFulfilled == pubClient = "ready" \/ subClient = "ready"

\* Promise.all([pubClient.connect(), subClient.connect()]) is fulfilled
PromiseAllFulfilled == pubClient = "ready" /\ subClient = "ready"

\* Promise.all([...]) is rejected: as soon as one of the two rejects
PromiseAllRejected == pubClient = "failed" \/ subClient = "failed"

\* createSocketIO after its await: io.adapter(createAdapter(...)); return io
createSocketIO ==
  /\ pc = "awaitConnect"
  /\ PromiseAllFulfilled
  /\ adapter' = TRUE
  /\ pc' = "startHttpServer"
  /\ UNCHANGED << stack, appRoutes, NODE_ENV, pubClient, subClient, listening, port, log >>
  /\ UNCHANGED requestVars

\* the rejection leaves createSocketIO and is caught in startServer:
\* catch (error) { log.error(error) }
startServerCatch ==
  /\ pc = "awaitConnect"
  /\ PromiseAllRejected
  /\ log' = Append(log, [level |-> "error", what |-> << "connect failed" >>])
  /\ pc' = "failed"
  /\ UNCHANGED << stack, appRoutes, NODE_ENV, pubClient, subClient, adapter, listening, port >>
  /\ UNCHANGED requestVars

\* this.startHttpServer(httpServer): log.info(...); httpServer.listen(SERVER_PORT, cb)
startHttpServer ==
  /\ pc = "startHttpServer"
  /\ log' = Append(log, [level |-> "info", what |-> << "Server has started with process" >>])
  /\ listening' = TRUE
  /\ port' = "binding"
  /\ pc' = "socketIOConnections"
  /\ UNCHANGED << stack, appRoutes, NODE_ENV, pubClient, subClient, adapter >>
  /\ UNCHANGED requestVars

\* this.socketIOConnections(socketIO): its body is empty
socketIOConnections ==
  /\ pc = "socketIOConnections"
  /\ pc' = "done"
  /\ UNCHANGED << stack, appRoutes, NODE_ENV, pubClient, subClient, adapter, listening, port, log >>
  /\ UNCHANGED requestVars

\* the server is bound to the port: the callback given to listen runs, in a
\* later turn of the event loop: log.info('Server running on port' + SERVER_PORT)
listenCallback ==
  /\ pc = "done"
  /\ port = "binding"
  /\ port' = "open"
  /\ log' = Append(log, [level |-> "info", what |-> << "Server running on port", SERVER_PORT >>])
  /\ UNCHANGED << pc, stack, appRoutes, NODE_ENV, pubClient, subClient, adapter, listening >>
  /\ UNCHANGED requestVars

\* the port is taken: the server emits 'error' (EADDRINUSE), which has no
\* listener and is outside startServer's try/catch: an uncaught exception
\* ends the process
listenError ==
  /\ pc = "done"
  /\ port = "binding"
  /\ port' = "inUse"
  /\ listening' = FALSE
  /\ pc' = "crashed"
  /\ UNCHANGED << stack, appRoutes, NODE_ENV, pubClient, subClient, adapter, log >>
  /\ UNCHANGED requestVars

\* a route registered on the app after start() has applied the gate and the
\* error handlers: Express appends it to the router's stack
registerLate ==
  /\ pc \notin {"start", "standardMiddleware", "routeMiddleware", "globalErrorHandler",
               "crashed"}
  /\ NumLate < MaxLate
  /\ \E r \in LateRouteSpace :
       /\ \A i \in 1..Len(stack) : stack[i] /= r
       /\ stack' = Append(stack, r)
  /\ UNCHANGED << pc, appRoutes, NODE_ENV, pubClient, subClient, adapter, listening, port, log >>
  /\ UNCHANGED requestVars

(***************************************************************************)
(* Handling a request: Express walks the stack from the first layer.       *)
(***************************************************************************)
cur == stack[idx]

AtLayer == chain = "running" /\ idx \in 1..Len(stack)

PathMatch(layer, r) == layer.path = "*" \/ layer.path = r.path

\* a HEAD request is served by the GET handler of a route
MethodMatch(layer, r) ==
  \/ layer.method = "ALL"
  \/ layer.method = r.method
  \/ (r.method = "HEAD" /\ layer.method = "GET")

\* Express runs a layer when it matches the request and its arity fits the
\* chain's mode: (req, res, next) without an error, (err, req, res, next)
\* with one; a route is never entered with an error
Runs(layer) ==
  IF layer.kind = "error"
  THEN layerError /= NoError
  ELSE /\ layerError = NoError
       /\ layer.kind = "route" => (PathMatch(layer, req) /\ MethodMatch(layer, req))

\* what a step of the chain leaves: the handler named `name` ran, and either
\* ended the chain (stops) or passed on with next() / next(err) / a throw
Outcome(name, newRes, newWire, newError, stops) ==
  /\ ran' = Append(ran, name)
  /\ res' = newRes
  /\ wire' = newWire
  /\ layerError' = newError
  /\ raised' = IF newError /= NoError /\ newError /= layerError
               THEN Append(raised, newError) ELSE raised
  /\ chain' = IF stops THEN "stopped" ELSE "running"
  /\ idx' = IF stops THEN idx ELSE idx + 1

\* res.status(status).json(body) / res.end(): the response leaves with the
\* headers set so far
\* a HEAD request is answered without a body
WireBody(body) == IF req.method = "HEAD" THEN EmptyBody ELSE body

Sent(by, status, body) ==
  [status |-> status, body |-> WireBody(body), hardened |-> res.hardened, by |-> by]

\* a handler that writes the response and returns: with the headers already
\* out, res.status() still assigns statusCode and the write throws
Respond(name, status, body) ==
  IF res.headersSent
  THEN /\ Outcome(name, [res EXCEPT !.statusCode = status], wire, HeadersSentError, FALSE)
       /\ lateWrites' = Append(lateWrites, name)
  ELSE /\ Outcome(name, [res EXCEPT !.statusCode = status, !.headersSent = TRUE],
                  Sent(name, status, body), layerError, TRUE)
       /\ lateWrites' = lateWrites

\* a middleware stage that does its work and calls next(), or throws when
\* it fails on this request
Stage(name) ==
  /\ Outcome(name, res, wire,
             IF req.failAt = name THEN StageError(name) ELSE layerError, FALSE)
  /\ lateWrites' = lateWrites

\* new Server(httpServer, ...) puts Socket.IO's engine in front of the
\* Express app on the HTTP server: it handles the requests under its own
\* path itself and hands only the others to the app
ToEngine(r) == r.path = SocketIOPath

\* a request arrives: only a server bound to its port accepts one
accept ==
  /\ port = "open"
  /\ chain /= "running"
  /\ \E m \in Methods, p \in Paths \cup {SocketIOPath}, f \in {"none"} \cup FailingStages :
       /\ p = SocketIOPath => f = "none"
       /\ req' = [method |-> m, path |-> p, failAt |-> f, nstack |-> Len(stack)]
  /\ chain' = "running"
  /\ idx' = IF ToEngine(req') THEN 0 ELSE 1
  /\ layerError' = NoError
  /\ options' = {}
  /\ res' = FreshRes
  /\ wire' = NoResponse
  /\ destroyed' = FALSE
  /\ ran' = << >>
  /\ raised' = << >>
  /\ handled' = << >>
  /\ lateWrites' = << >>
  /\ UNCHANGED << stack, appRoutes, NODE_ENV, log >>
  /\ UNCHANGED startupVars

\* what Socket.IO's engine answers: its own cors step (the cors option
\* given to new Server, without optionsSuccessStatus) ends an OPTIONS
\* request with 204 and no body; any other request is a handshake or a
\* poll (200) or is refused (400)
EngineAnswers(r) ==
  IF r.method = "OPTIONS"
  THEN { [status |-> 204, body |-> EmptyBody] }
  ELSE { [status |-> st, body |-> Body("text", << "engine.io" >>)] : st \in {200, 400} }

\* Socket.IO's engine answers a request under its path without the Express
\* app seeing it
socketIOHandles ==
  /\ chain = "running"
  /\ idx = 0
  /\ \E a \in EngineAnswers(req) :
       /\ wire' = Sent("socket.io", a.status, a.body)
       /\ res' = [res EXCEPT !.statusCode = a.status, !.headersSent = TRUE,
                             !.cors = TRUE]
  /\ ran' = Append(ran, "socket.io")
  /\ chain' = "stopped"
  /\ UNCHANGED << req, idx, layerError, options, destroyed, raised, handled, lateWrites >>
  /\ UNCHANGED << stack, appRoutes, NODE_ENV, log >>
  /\ UNCHANGED startupVars

\* Express passes over a layer that does not run; a route that matches the
\* path of an OPTIONS request but not its method is noted for the automatic
\* OPTIONS answer
skipLayer ==
  /\ AtLayer
  /\ ~Runs(cur)
  /\ idx' = idx + 1
  /\ options' = IF /\ cur.kind = "route"
                   /\ layerError = NoError
                   /\ PathMatch(cur, req)
                   /\ req.method = "OPTIONS"
                THEN options \cup {cur.method} ELSE options
  /\ UNCHANGED << req, chain, layerError, res, wire, destroyed, ran,
                  raised, handled, lateWrites >>
  /\ UNCHANGED << stack, appRoutes, NODE_ENV, log >>
  /\ UNCHANGED startupVars

\* cookieSession({ name, keys, maxAge, secure })
runCookieSession ==
  /\ AtLayer /\ Runs(cur) /\ cur.name = "cookieSession"
  /\ Stage("cookieSession")
  /\ UNCHANGED << req, options, destroyed, handled >>
  /\ UNCHANGED << stack, appRoutes, NODE_ENV, log >>
  /\ UNCHANGED startupVars

\* hpp()
runHpp ==
  /\ AtLayer /\ Runs(cur) /\ cur.name = "hpp"
  /\ Stage("hpp")
  /\ UNCHANGED << req, options, destroyed, handled >>
  /\ UNCHANGED << stack, appRoutes, NODE_ENV, log >>
  /\ UNCHANGED startupVars

\* helmet(): sets the hardening headers on the response and calls next()
runHelmet ==
  /\ AtLayer /\ Runs(cur) /\ cur.name = "helmet"
  /\ Outcome("helmet", [res EXCEPT !.hardened = TRUE], wire, layerError, FALSE)
  /\ lateWrites' = lateWrites
  /\ UNCHANGED << req, options, destroyed, handled >>
  /\ UNCHANGED << stack, appRoutes, NODE_ENV, log >>
  /\ UNCHANGED startupVars

\* a faulty variant: cors also ends the chain for a method outside its list
corsRejectsUnlisted(method) == method = "OPTIONS" \/ method \notin corsMethods

\* the cors middleware answers an OPTIONS request itself
\* (preflightContinue is not set) and passes every other request on
corsAnswers(method) == method = "OPTIONS"

\* cors({ origin, credentials, optionsSuccessStatus: 200, methods })
runCors ==
  /\ AtLayer /\ Runs(cur) /\ cur.name = "cors"
  /\ IF corsAnswers(req.method)
     THEN Outcome("cors",
                  [res EXCEPT !.cors = TRUE, !.statusCode = optionsSuccessStatus,
                              !.headersSent = TRUE],
                  Sent("cors", optionsSuccessStatus, EmptyBody),
                  layerError, TRUE)
     ELSE Outcome("cors", [res EXCEPT !.cors = TRUE], wire, layerError, FALSE)
  /\ lateWrites' = lateWrites
  /\ UNCHANGED << req, options, destroyed, handled >>
  /\ UNCHANGED << stack, appRoutes, NODE_ENV, log >>
  /\ UNCHANGED startupVars

\* compression()
runCompression ==
  /\ AtLayer /\ Runs(cur) /\ cur.name = "compression"
  /\ Stage("compression")
  /\ UNCHANGED << req, options, destroyed, handled >>
  /\ UNCHANGED << stack, appRoutes, NODE_ENV, log >>
  /\ UNCHANGED startupVars

\* json({ limit: '50mb' }): throws on a body it cannot parse or that is too big
runJson ==
  /\ AtLayer /\ Runs(cur) /\ cur.name = "json"
  /\ Stage("json")
  /\ UNCHANGED << req, options, destroyed, handled >>
  /\ UNCHANGED << stack, appRoutes, NODE_ENV, log >>
  /\ UNCHANGED startupVars

\* urlencoded({ extended: true, limit: '50mb' })
runUrlencoded ==
  /\ AtLayer /\ Runs(cur) /\ cur.name = "urlencoded"
  /\ Stage("urlencoded")
  /\ UNCHANGED << req, options, destroyed, handled >>
  /\ UNCHANGED << stack, appRoutes, NODE_ENV, log >>
  /\ UNCHANGED startupVars

\* what a route handler of the application may do with a request: answer
\* it, pass it on with next(), throw, or throw after it has answered
\* (with express-async-errors a rejected async handler counts as a throw)
HandlerOutcomes ==
  { [sends |-> s, then |-> "return", error |-> NoError] : s \in {TRUE} }
  \cup { [sends |-> s, then |-> "next", error |-> NoError] : s \in {FALSE} }
  \cup { [sends |-> s, then |-> "throw", error |-> e] :
           s \in BOOLEAN, e \in CustomErrors \cup UnexpectedErrors }

OkBody == Body("json", << "ok" >>)

\* a route handler registered by ./routes, or registered later
runRoute ==
  /\ AtLayer /\ Runs(cur) /\ cur.name \in {"route", "lateRoute"}
  /\ \E o \in HandlerOutcomes :
       LET sentRes == IF o.sends /\ ~res.headersSent
                      THEN [res EXCEPT !.headersSent = TRUE] ELSE res
           sentWire == IF o.sends /\ ~res.headersSent
                       THEN Sent(cur.name, res.statusCode, OkBody) ELSE wire
           late == o.sends /\ res.headersSent
       IN /\ Outcome(cur.name, sentRes, sentWire,
                     IF late THEN HeadersSentError ELSE o.error,
                     ~late /\ o.then = "return")
          /\ lateWrites' = IF late THEN Append(lateWrites, cur.name) ELSE lateWrites
  /\ UNCHANGED << req, options, destroyed, handled >>
  /\ UNCHANGED << stack, appRoutes, NODE_ENV, log >>
  /\ UNCHANGED startupVars

\* a faulty variant: .status(HTTP_STATUS.NOT_FOUND) left out, the status stays 200
NotFoundResponseDefaultStatus(r) ==
  [status |-> FreshRes.statusCode, body |-> Body("json", << r.path, " not found" >>)]

\* res.status(HTTP_STATUS.NOT_FOUND).json({ message: req.originalUrl + ' not found' })
NotFoundResponse(r) ==
  [status |-> NOT_FOUND, body |-> Body("json", << r.path, " not found" >>)]

\* app.all('*', (req, res) => ...)
runNotFound ==
  /\ AtLayer /\ Runs(cur) /\ cur.name = "notFound"
  /\ Respond("notFound", NotFoundResponse(req).status, NotFoundResponse(req).body)
  /\ UNCHANGED << req, options, destroyed, handled >>
  /\ UNCHANGED << stack, appRoutes, NODE_ENV, log >>
  /\ UNCHANGED startupVars

\* a faulty variant: every failure answered with the internal-error status
CustomErrorResponseInternal(error) ==
  [status |-> 500, body |-> serializeErrors(error)]

\* res.status(error.statusCode).json(error.serializeErrors())
CustomErrorResponse(error) ==
  [status |-> error.statusCode, body |-> serializeErrors(error)]

\* app.use((error, _req, res, next) => { log.error(error); if (error
\* instanceof CustomError) return res.status(...).json(...); next(); })
runErrorHandler ==
  /\ AtLayer /\ Runs(cur) /\ cur.name = "errorHandler"
  /\ handled' = Append(handled, [error |-> layerError, headersSent |-> res.headersSent])
  /\ IF IsCustomError(layerError)
     THEN Respond("errorHandler", CustomErrorResponse(layerError).status,
                  CustomErrorResponse(layerError).body)
     ELSE /\ Outcome("errorHandler", res, wire, NoError, FALSE)
          /\ lateWrites' = lateWrites
  /\ UNCHANGED << req, options, destroyed >>
  /\ UNCHANGED << stack, appRoutes, NODE_ENV, log >>
  /\ UNCHANGED startupVars

\* the status Express' final handler answers an error with
FinalStatus(error) ==
  IF error.statusCode \in 400..599 THEN error.statusCode
  ELSE IF res.statusCode \in 400..599 THEN res.statusCode
  ELSE 500

\* what Express' final handler answers when the stack is exhausted
FinalResponse ==
  IF layerError /= NoError
  THEN [status |-> FinalStatus(layerError),
        body |-> IF NODE_ENV = "production"
                 THEN Body("html", << "status message" >>)
                 ELSE Body("html", << layerError.name, layerError.message >>)]
  ELSE IF req.method = "OPTIONS" /\ options /= {}
  THEN [status |-> res.statusCode, body |-> Body("text", << "Allow" >>)]
  ELSE [status |-> NOT_FOUND,
        body |-> Body("html", << "Cannot ", req.method, " ", req.path >>)]

\* the stack is exhausted: Express' final handler answers; with the headers
\* already out it cannot, and it returns when it carries no error and
\* destroys the socket when it carries one
finalhandler ==
  /\ chain = "running"
  /\ idx = Len(stack) + 1
  /\ chain' = "stopped"
  /\ ran' = Append(ran, "finalhandler")
  /\ IF res.headersSent
     THEN /\ destroyed' = (layerError /= NoError)
          /\ UNCHANGED << res, wire >>
     ELSE /\ destroyed' = destroyed
          /\ res' = [res EXCEPT !.headersSent = TRUE, !.statusCode = FinalResponse.status]
          /\ wire' = Sent("finalhandler", FinalResponse.status, FinalResponse.body)
  /\ UNCHANGED << req, idx, layerError, options, raised, handled, lateWrites >>
  /\ UNCHANGED << stack, appRoutes, NODE_ENV, log >>
  /\ UNCHANGED startupVars

(***************************************************************************)
(* Properties.                                                             *)
(***************************************************************************)
stopped == chain = "stopped"

Last(s) == s[Len(s)]

\* an application route (registered by ./routes or later) with the request's path
HasAppRoute(r) ==
  \E i \in 1..Len(stack) :
    stack[i].name \in {"route", "lateRoute"} /\ stack[i].path = r.path

\* a route that was registered after start() and before the request arrived,
\* and matches the request
HasLateRoute(r) ==
  \E i \in 1..r.nstack :
    stack[i].name = "lateRoute" /\ PathMatch(stack[i], r) /\ MethodMatch(stack[i], r)

\* a route registered by ./routes that matches the request
HasEarlyRoute(r) ==
  \E i \in 1..Len(stack) :
    stack[i].name = "route" /\ PathMatch(stack[i], r) /\ MethodMatch(stack[i], r)

GateOrder == << "cookieSession", "hpp", "helmet", "cors" >>

\* C1: the HTTP listener is not started before both Redis clients have
\* connected and the adapter built from them is attached to the Socket.IO
\* server: whenever the server listens, both connections are established
\* and the adapter is attached.
C1_ListenAfterBackbone ==
  (listening \/ port /= "closed")
  => (pubClient = "ready" /\ subClient = "ready" /\ adapter)

C1_Witness == listening /\ port = "open" /\ adapter /\ pc = "done"

\* C3 (as claimed): a failure that is no CustomError, raised before any
\* response was sent, is logged by the error handler and answered with the
\* internal-error status 500 and a body that carries none of its detail.
C3_UnrecognizedGets500 ==
  (stopped /\ raised /= << >> /\ ~IsCustomError(raised[1]) /\ wire.by /= "route")
  => /\ handled /= << >>
     /\ handled[1].error = raised[1]
     /\ wire.status = 500
     /\ ~Contains(wire.body.message, raised[1].message)

\* C4 (as claimed): for every CustomError raised while a request (here: any
\* but a HEAD request) is handled, the response's status is the error's
\* statusCode and its body is the error's serializeErrors().
C4_EveryCustomErrorSerialized ==
  (stopped /\ req.method /= "HEAD") =>
    \A i \in 1..Len(raised) :
      IsCustomError(raised[i]) =>
        /\ wire.status = raised[i].statusCode
        /\ wire.body = serializeErrors(raised[i])

\* C4 (amended): for every CustomError that reaches the error handler while
\* no response has been sent for the request, the response's status is the
\* error's statusCode, its body is the error's serializeErrors() (no body
\* on a HEAD request), and the chain ends with the error handler.
C4_CustomErrorSerialized ==
  \A i \in 1..Len(handled) :
    (IsCustomError(handled[i].error) /\ ~handled[i].headersSent) =>
      /\ wire.by = "errorHandler"
      /\ wire.status = handled[i].error.statusCode
      /\ wire.body = IF req.method = "HEAD" THEN EmptyBody
                      ELSE serializeErrors(handled[i].error)
      /\ stopped
      /\ Last(ran) = "errorHandler"

C4_Witness ==
  /\ stopped
  /\ wire.by = "errorHandler"
  /\ wire.status = 400
  /\ req.method /= "HEAD"
  /\ wire.body = serializeErrors(handled[1].error)
  /\ raised = << handled[1].error >>

\* C5 (as claimed): a request of any method that the Express app handles
\* and whose path has no application route is answered with the not-found status and a message that contains
\* the requested path.
C5_AnyMethodNotFound ==
  (stopped /\ ~ToEngine(req) /\ ~HasAppRoute(req)) =>
    /\ wire.status = NOT_FOUND
    /\ wire.body.type = "json"
    /\ Contains(wire.body.message, req.path)

\* C5 (amended): a request that the Express app handles (one not under
\* Socket.IO's path), whose method is not OPTIONS, on which no stage ahead
\* of routing fails, and whose path has no application route is
\* answered by the not-found handler with the not-found status and, unless
\* its method is HEAD (answered without a body), a message that contains
\* the requested path; and a request that an application route answered
\* never ran the not-found handler.
C5_NotFound ==
  /\ (stopped /\ ~ToEngine(req) /\ req.method /= "OPTIONS" /\ req.failAt = "none"
        /\ ~HasAppRoute(req))
     => /\ wire.by = "notFound"
        /\ wire.status = NOT_FOUND
        /\ IF req.method = "HEAD"
           THEN wire.body = EmptyBody
           ELSE wire.body.type = "json" /\ Contains(wire.body.message, req.path)
  /\ wire.by \in {"route", "lateRoute"}
     => \A i \in 1..Len(ran) : ran[i] /= "notFound"

C5_Witness ==
  /\ stopped
  /\ req.method = "PUT"
  /\ req.failAt = "none"
  /\ ~HasAppRoute(req)
  /\ wire.by = "notFound"

\* C6 (as claimed): once the headers of a response are out, the error
\* handler only logs a later failure: it never tries to set a status or to
\* write a body again.
C6_NoSecondWrite ==
  \A i \in 1..Len(lateWrites) : lateWrites[i] /= "errorHandler"

\* C7 (as claimed): a failed backbone connection at startup does not keep
\* the process from serving: when startup has ended, the server listens.
C7_ServesWithoutBackbone ==
  pc \in {"failed", "done"} => listening

\* C8 (as claimed): a request that matches a route registered after start()
\* (and no route of ./routes), on which no stage fails, reaches that route's
\* handler and is not answered by the not-found handler.
C8_LateRouteReached ==
  (stopped /\ HasLateRoute(req) /\ ~HasEarlyRoute(req)
     /\ req.failAt = "none" /\ req.method /= "OPTIONS")
  => /\ \E i \in 1..Len(ran) : ran[i] = "lateRoute"
     /\ wire.by /= "notFound"

\* C9 (as claimed): on a request to the Express app on which no gate stage
\* fails, the four gate stages run in order, none of them answers the
\* request, and control passes on to the stage after the gate.
C9_GateNeverAnswers ==
  (stopped /\ ~ToEngine(req) /\ req.failAt \notin GateStages) =>
    /\ Len(ran) > Len(GateOrder)
    /\ SubSeq(ran, 1, Len(GateOrder)) = GateOrder
    /\ wire.by \notin GateStages

\* C9 (amended): on a request to the Express app (one not under Socket.IO's
\* path), other than OPTIONS, on which no gate stage fails, the four gate
\* stages run in order, none of them answers, and control passes on to the
\* stage after the gate; an OPTIONS request to the app on which no gate
\* stage fails is answered by the cors stage itself, with status
\* 200 and an empty body, after the three stages ahead of it ran.
C9_GatePassesOn ==
  (stopped /\ ~ToEngine(req) /\ req.failAt \notin GateStages) =>
    IF req.method = "OPTIONS"
    THEN /\ ran = GateOrder
         /\ wire.by = "cors"
         /\ wire.status = optionsSuccessStatus
         /\ wire.body = EmptyBody
    ELSE /\ Len(ran) > Len(GateOrder)
         /\ SubSeq(ran, 1, Len(GateOrder)) = GateOrder
         /\ ran[Len(GateOrder) + 1] = "compression"
         /\ wire.by \notin GateStages

C9_Witness ==
  /\ stopped
  /\ req.method = "GET"
  /\ req.failAt = "none"
  /\ wire.by = "route"
  /\ SubSeq(ran, 1, Len(GateOrder)) = GateOrder

\* C10 (as claimed): every response that is sent carries the hardening
\* headers.
C10_EveryResponseHardened ==
  wire /= NoResponse => wire.hardened

Next ==
  \/ securityMiddleware
  \/ standardMiddleware
  \/ routeMiddleware
  \/ globalErrorHandler
  \/ startServer
  \/ pubConnect
  \/ subConnect
  \/ createSocketIO
  \/ startServerCatch
  \/ startHttpServer
  \/ socketIOConnections
  \/ listenCallback
  \/ listenError
  \/ registerLate
  \/ accept
  \/ socketIOHandles
  \/ skipLayer
  \/ runCookieSession
  \/ runHpp
  \/ runHelmet
  \/ runCors
  \/ runCompression
  \/ runJson
  \/ runUrlencoded
  \/ runRoute
  \/ runNotFound
  \/ runErrorHandler
  \/ finalhandler

Spec == Init /\ [][Next]_vars
====
